---- MODULE Spec2Model ----
(***************************************************************************)
(* Model of scripts/data_preprocessing.py: the KOSIS preprocessing         *)
(* pipeline load -> clean -> summarize -> save -> preview.                 *)
(*                                                                         *)
(* Text is a sequence of one-character strings.  A file is a sequence of   *)
(* bytes; an ASCII byte is written as its character, the other bytes as    *)
(* their two hex digits.  The one non-ASCII character of the model is the  *)
(* Hangul syllable U+C778 (the first letter of the population column).     *)
(***************************************************************************)
EXTENDS Integers, Sequences, FiniteSets, TLC

VARIABLES
    fs,                 \* the data directory: file name -> Absent or a file
    pc,                 \* position of the running function
    population_df,      \* main / harness locals
    employment_df,
    regional_df,
    population_clean,
    employment_clean,
    summary,
    reloaded,           \* harness local: the written file read back
    console,            \* what was printed, in order
    raised,             \* the exception that left the running function
    trace,              \* history: the steps taken so far, in order
    loaded,             \* history: the frames as the loader returned them
    fixture             \* history: what each source file was made from

vars == <<fs, pc, population_df, employment_df, regional_df, population_clean,
          employment_clean, summary, reloaded, console, raised, trace, loaded, fixture>>

----------------------------------------------------------------------------
(* Python and pandas values                                                *)

None == [k |-> "None"]
Unset == [k |-> "unset"]
Absent == [k |-> "absent"]
File(bytes) == [k |-> "file", bytes |-> bytes]

NaN == [t |-> "nan"]
Str(s) == [t |-> "str", s |-> s]
Num(v) == [t |-> "num", v |-> v]

DataFrame(columns, dtypes, data) ==
    [k |-> "df", columns |-> columns, dtypes |-> dtypes, data |-> data]

NRows(df) == IF Len(df.data) = 0 THEN 0 ELSE Len(df.data[1])

RECURSIVE Flatten(_)
Flatten(ss) == IF ss = <<>> THEN <<>> ELSE Head(ss) \o Flatten(Tail(ss))

----------------------------------------------------------------------------
(* Codecs: cp949 (the loader's default) and utf-8-sig (the writer's)       *)

Hangul == "U+C778"
BOM == <<"EF", "BB", "BF">>
HighBytes == {"C0", "CE", "EC", "9D", "B8", "EF", "BB", "BF", "FF"}

Cp949Bytes(c) == IF c = Hangul THEN <<"C0", "CE">> ELSE <<c>>
Utf8Bytes(c) == IF c = Hangul THEN <<"EC", "9D", "B8">> ELSE <<c>>

Encode(text, encoding) ==
    IF encoding = "utf-8-sig"
    THEN BOM \o Flatten([i \in 1..Len(text) |-> Utf8Bytes(text[i])])
    ELSE Flatten([i \in 1..Len(text) |-> Cp949Bytes(text[i])])

DecodeError == [ok |-> FALSE, text |-> <<>>]

\* The multi-byte sequences a strict decoder accepts, among the bytes of the
\* model: C0 CE in cp949, EC 9D B8 in UTF-8.  Anything else that starts with a
\* high byte is an illegal sequence (UnicodeDecodeError).
RECURSIVE DecodeFrom(_, _, _, _)
DecodeFrom(bytes, i, encoding, acc) ==
    IF i > Len(bytes) THEN [ok |-> TRUE, text |-> acc]
    ELSE IF bytes[i] \notin HighBytes
    THEN DecodeFrom(bytes, i + 1, encoding, Append(acc, bytes[i]))
    ELSE IF encoding = "cp949"
    THEN IF i + 1 <= Len(bytes) /\ SubSeq(bytes, i, i + 1) = <<"C0", "CE">>
         THEN DecodeFrom(bytes, i + 2, encoding, Append(acc, Hangul))
         ELSE DecodeError
    ELSE IF i + 2 <= Len(bytes) /\ SubSeq(bytes, i, i + 2) = <<"EC", "9D", "B8">>
         THEN DecodeFrom(bytes, i + 3, encoding, Append(acc, Hangul))
         ELSE DecodeError

Decode(bytes, encoding) ==
    IF encoding = "utf-8-sig" /\ Len(bytes) >= 3 /\ SubSeq(bytes, 1, 3) = BOM
    THEN DecodeFrom(bytes, 4, encoding, <<>>)
    ELSE DecodeFrom(bytes, 1, encoding, <<>>)

----------------------------------------------------------------------------
(* Number syntax                                                           *)

DigitChars == <<"0", "1", "2", "3", "4", "5", "6", "7", "8", "9">>
IsDigit(c) == \E i \in 1..10 : DigitChars[i] = c
DigitVal(c) == (CHOOSE i \in 1..10 : DigitChars[i] = c) - 1

RECURSIVE DecimalValue(_)
DecimalValue(s) ==
    IF s = <<>> THEN 0
    ELSE DecimalValue(SubSeq(s, 1, Len(s) - 1)) * 10 + DigitVal(s[Len(s)])

RECURSIVE Digits(_)
Digits(v) ==
    IF v < 10 THEN <<DigitChars[v + 1]>>
    ELSE Append(Digits(v \div 10), DigitChars[(v % 10) + 1])

AllDigits(s) == s # <<>> /\ \A i \in 1..Len(s) : IsDigit(s[i])

\* digits, optionally followed by a point and zeros: the texts of the model hold
\* no other fractional digits, so every number of the model is integral.
DotAt(s) == IF \E i \in 1..Len(s) : s[i] = "."
            THEN CHOOSE i \in 1..Len(s) : s[i] = "." /\ \A j \in 1..(i - 1) : s[j] # "."
            ELSE Len(s) + 1
IsDecimal(s) ==
    /\ AllDigits(SubSeq(s, 1, DotAt(s) - 1))
    /\ \A i \in (DotAt(s) + 1)..Len(s) : s[i] = "0"
DecimalOf(s) == DecimalValue(SubSeq(s, 1, DotAt(s) - 1))

Lower(c) == CASE c = "N" -> "n" [] c = "A" -> "a" [] OTHER -> c

\* float(str) on the texts of the model: a decimal literal or "nan" in any letter
\* case gives a float; anything else, the empty string included, is a ValueError.
PyFloat(s) ==
    IF IsDecimal(s) THEN [ok |-> TRUE, val |-> Num(DecimalOf(s))]
    ELSE IF [i \in 1..Len(s) |-> Lower(s[i])] = <<"n", "a", "n">>
    THEN [ok |-> TRUE, val |-> NaN]
    ELSE [ok |-> FALSE, val |-> NaN]

----------------------------------------------------------------------------
(* DataFrame.to_csv(index=False): QUOTE_MINIMAL, na_rep "", "\n" line ends  *)

NeedsQuote(s) == \E i \in 1..Len(s) : s[i] \in {",", "\"", "\n"}

\* no field is ever quoted (QUOTE_NONE)
QuoteField_never(s) == s

QuoteField(s) ==
    IF NeedsQuote(s)
    THEN <<"\"">> \o Flatten([i \in 1..Len(s) |->
                        IF s[i] = "\"" THEN <<"\"", "\"">> ELSE <<s[i]>>]) \o <<"\"">>
    ELSE s

FormatCell(cell, dtype) ==
    CASE cell.t = "nan" -> <<>>
      [] cell.t = "str" -> cell.s
      [] OTHER -> IF dtype = "float64" THEN Digits(cell.v) \o <<".", "0">>
                  ELSE Digits(cell.v)

CsvLine(fields) ==
    Flatten([i \in 1..Len(fields) |->
        IF i = 1 THEN QuoteField(fields[i]) ELSE <<",">> \o QuoteField(fields[i])])
    \o <<"\n">>

ToCsvText(df) ==
    CsvLine(df.columns)
    \o Flatten([r \in 1..NRows(df) |->
          CsvLine([c \in 1..Len(df.columns) |-> FormatCell(df.data[c][r], df.dtypes[c])])])

----------------------------------------------------------------------------
(* pandas.read_csv with the defaults of the C parser                       *)

\* One pass over the decoded text.  st: "start_line" (nothing of the line read),
\* "start_field", "in_field", "in_quoted", "quote_in_quoted".  A line without
\* any character is skipped (skip_blank_lines).
RECURSIVE Tokenize(_, _, _, _, _, _)
Tokenize(text, i, st, field, line, lines) ==
    IF i > Len(text)
    THEN IF st = "start_line" THEN lines ELSE Append(lines, Append(line, field))
    ELSE LET c == text[i] IN
         CASE st = "in_quoted" /\ c = "\"" ->
                Tokenize(text, i + 1, "quote_in_quoted", field, line, lines)
           [] st = "in_quoted" /\ c # "\"" ->
                Tokenize(text, i + 1, "in_quoted", Append(field, c), line, lines)
           [] st = "quote_in_quoted" /\ c = "\"" ->
                Tokenize(text, i + 1, "in_quoted", Append(field, c), line, lines)
           [] st # "in_quoted" /\ c = "," ->
                Tokenize(text, i + 1, "start_field", <<>>, Append(line, field), lines)
           [] st # "in_quoted" /\ c = "\n" ->
                IF st = "start_line"
                THEN Tokenize(text, i + 1, "start_line", <<>>, <<>>, lines)
                ELSE Tokenize(text, i + 1, "start_line", <<>>, <<>>,
                              Append(lines, Append(line, field)))
           [] st \in {"start_line", "start_field"} /\ c = "\"" ->
                Tokenize(text, i + 1, "in_quoted", field, line, lines)
           [] OTHER ->
                Tokenize(text, i + 1, "in_field", Append(field, c), line, lines)

\* pandas' default NA strings (quoted or not)
STR_NA_VALUES ==
    { <<>>, <<"N", "A">>, <<"N", "a", "N">>, <<"n", "a", "n">>, <<"N", "/", "A">>,
      <<"n", "/", "a">>, <<"N", "U", "L", "L">>, <<"n", "u", "l", "l">>,
      <<"N", "o", "n", "e">>, <<"#", "N", "/", "A">>, <<"#", "N", "A">>,
      <<"<", "N", "A", ">">>, <<"-", "N", "a", "N">>, <<"-", "n", "a", "n">> }

\* dtype inference of one column from its field texts
InferColumn(fields) ==
    LET n == Len(fields)
        isna(f) == f \in STR_NA_VALUES
    IN  IF n = 0 THEN [dtype |-> "object", cells |-> <<>>]
        ELSE IF \A r \in 1..n : isna(fields[r])
        THEN [dtype |-> "float64", cells |-> [r \in 1..n |-> NaN]]
        ELSE IF \A r \in 1..n : AllDigits(fields[r])
        THEN [dtype |-> "int64", cells |-> [r \in 1..n |-> Num(DecimalValue(fields[r]))]]
        ELSE IF \A r \in 1..n : isna(fields[r]) \/ IsDecimal(fields[r])
        THEN [dtype |-> "float64",
              cells |-> [r \in 1..n |-> IF isna(fields[r]) THEN NaN
                                        ELSE Num(DecimalOf(fields[r]))]]
        ELSE [dtype |-> "object",
              cells |-> [r \in 1..n |-> IF isna(fields[r]) THEN NaN ELSE Str(fields[r])]]

\* The frame of tokenized lines, the first being the header; a line with fewer
\* fields than the header is padded with NA.
FrameOfLines(lines) ==
    LET width == Len(lines[1])
        n == Len(lines) - 1
        field(r, c) == IF c <= Len(lines[r + 1]) THEN lines[r + 1][c] ELSE <<>>
        col(c) == InferColumn([r \in 1..n |-> field(r, c)])
    IN  DataFrame(lines[1], [c \in 1..width |-> col(c).dtype],
                  [c \in 1..width |-> col(c).cells])

\* as ReadCsv, but a line with too many fields is dropped (on_bad_lines="skip")
ReadCsv_skip_bad_lines(bytes, encoding) ==
    LET dec == Decode(bytes, encoding)
        lines == Tokenize(dec.text, 1, "start_line", <<>>, <<>>, <<>>)
    IN  IF ~dec.ok THEN [exc |-> "UnicodeDecodeError", df |-> None]
        ELSE IF lines = <<>> THEN [exc |-> "EmptyDataError", df |-> None]
        ELSE [exc |-> "none",
              df |-> FrameOfLines(SelectSeq(lines, LAMBDA l : Len(l) <= Len(lines[1])))]

\* A line after the first data line with more fields than expected is a
\* ParserError.  (The first data line of every source of the model has the
\* header's width, so the expected width is the header's.)
ReadCsv(bytes, encoding) ==
    LET dec == Decode(bytes, encoding)
        lines == Tokenize(dec.text, 1, "start_line", <<>>, <<>>, <<>>)
    IN  IF ~dec.ok THEN [exc |-> "UnicodeDecodeError", df |-> None]
        ELSE IF lines = <<>> THEN [exc |-> "EmptyDataError", df |-> None]
        ELSE IF \E r \in 3..Len(lines) : Len(lines[r]) > Len(lines[1])
        THEN [exc |-> "ParserError", df |-> None]
        ELSE [exc |-> "none", df |-> FrameOfLines(lines)]

----------------------------------------------------------------------------
(* The functions of data_preprocessing.py.  Each returns what the function *)
(* returns (ret), what it prints (out) and, for the writer, the data       *)
(* directory afterwards and the exception that leaves it.                  *)

Msg(fn, arg, text) == [fn |-> fn, arg |-> arg, text |-> text]

load_kosis_csv(dir, filename, encoding) ==
    IF dir[filename] = Absent
    THEN [ret |-> None, out |-> <<Msg("load_kosis_csv", filename, "not found"),
                                  Msg("load_kosis_csv", filename, "path")>>]
    ELSE LET r == ReadCsv(dir[filename].bytes, encoding) IN
         IF r.exc = "none"
         THEN [ret |-> r.df,
               out |-> <<[fn |-> "load_kosis_csv", arg |-> filename, text |-> "loaded",
                          rows |-> NRows(r.df)]>>]
         ELSE [ret |-> None, out |-> <<Msg("load_kosis_csv", filename, r.exc)>>]

\* the commas are left in place
StrReplace_keep_commas(cells) == cells

\* Series.str.replace(',', ''): missing cells stay missing
StrReplace(cells) ==
    [r \in 1..Len(cells) |->
        IF cells[r].t = "str"
        THEN Str(SelectSeq(cells[r].s, LAMBDA ch : ch # ","))
        ELSE cells[r]]

\* Series.astype(float) on an object column: float() of every string; one
\* ValueError fails the whole conversion
AsTypeFloat(cells) ==
    LET conv(cell) == IF cell.t = "str" THEN PyFloat(cell.s) ELSE [ok |-> TRUE, val |-> cell]
    IN  IF \A r \in 1..Len(cells) : conv(cells[r]).ok
        THEN [ok |-> TRUE, cells |-> [r \in 1..Len(cells) |-> conv(cells[r]).val]]
        ELSE [ok |-> FALSE, cells |-> cells]

\* cell by cell (errors="coerce"-like): the cells that parse are converted, the
\* others are left as they are
CleanColumn_per_cell(df, c) ==
    IF df.dtypes[c] = "object"
    THEN LET s == StrReplace(df.data[c]) IN
         [df EXCEPT !.data[c] = [r \in 1..Len(s) |->
                        IF s[r].t = "str" /\ PyFloat(s[r].s).ok
                        THEN PyFloat(s[r].s).val ELSE df.data[c][r]]]
    ELSE df

\* the body of the for loop, lines 69-74, for column c
CleanColumn(df, c) ==
    IF df.dtypes[c] = "object"
    THEN LET conv == AsTypeFloat(StrReplace(df.data[c])) IN
         IF conv.ok
         THEN [df EXCEPT !.data[c] = conv.cells, !.dtypes[c] = "float64"]
         ELSE df
    ELSE df

RECURSIVE CleanLoop(_, _)
CleanLoop(df, cols) ==
    IF cols = <<>> THEN df ELSE CleanLoop(CleanColumn(df, Head(cols)), Tail(cols))

\* df.isnull().sum()
IsNullSum(df) ==
    [c \in 1..Len(df.columns) |->
        Cardinality({r \in 1..Len(df.data[c]) : df.data[c][r].t = "nan"})]

clean_population_data(df) ==
    IF df = None THEN [ret |-> None, out |-> <<>>]
    ELSE LET numeric_columns ==
                 SelectSeq([c \in 1..Len(df.columns) |-> c],
                           LAMBDA c : df.dtypes[c] = "object")
             cleaned == CleanLoop(df, numeric_columns)
             missing == IsNullSum(cleaned)
         IN  [ret |-> cleaned,
              out |-> <<Msg("clean_population_data", "", "start")>>
                      \o (IF \E c \in 1..Len(missing) : missing[c] > 0
                          THEN <<[fn |-> "clean_population_data", arg |-> "",
                                  text |-> "missing", counts |-> missing]>>
                          ELSE <<>>)
                      \o <<Msg("clean_population_data", "", "done")>>]

\* the employment frame is given the population frame's conversion
clean_employment_data_convert(df) ==
    [ret |-> clean_population_data(df).ret,
     out |-> IF df = None THEN <<>>
             ELSE <<Msg("clean_employment_data", "", "start"),
                    Msg("clean_employment_data", "", "done")>>]

clean_employment_data(df) ==
    IF df = None THEN [ret |-> None, out |-> <<>>]
    ELSE [ret |-> df,
          out |-> <<Msg("clean_employment_data", "", "start"),
                    Msg("clean_employment_data", "", "done")>>]

Dict(items) == [k |-> "dict", items |-> items]
EmptyDict == Dict({})

\* the commented-out aggregation of lines 120 and 125 switched on
create_summary_statistics_filled(pop, emp) ==
    [ret |-> Dict((IF pop # None THEN {"latest_population"} ELSE {})
                  \cup (IF emp # None THEN {"it_employment_trend"} ELSE {})),
     out |-> <<Msg("create_summary_statistics", "", "start"),
               Msg("create_summary_statistics", "", "done")>>]

create_summary_statistics(pop, emp) ==
    [ret |-> EmptyDict,
     out |-> <<Msg("create_summary_statistics", "", "start"),
               Msg("create_summary_statistics", "", "done")>>]

ProcessedName(filename) ==
    CASE filename = "population.csv" -> "processed_population.csv"
      [] filename = "employment.csv" -> "processed_employment.csv"
      [] filename = "regional_population.csv" -> "processed_regional_population.csv"

\* io_ok: whether the operating system lets to_csv open and write the file;
\* when it does not, to_csv raises OSError and nothing catches it here.
save_processed_data(dir, df, filename, io_ok) ==
    IF df = None THEN [dir |-> dir, out |-> <<>>, exc |-> "none"]
    ELSE IF io_ok
    THEN [dir |-> [dir EXCEPT ![ProcessedName(filename)] =
                        File(Encode(ToCsvText(df), "utf-8-sig"))],
          out |-> <<Msg("save_processed_data", filename, "saved")>>,
          exc |-> "none"]
    ELSE [dir |-> dir, out |-> <<>>, exc |-> "OSError"]

----------------------------------------------------------------------------
(* Source files                                                            *)

MaxRows == 2

ColumnNames == << <<Hangul>>, <<"y">> >>

T_2500000 == <<"2", ",", "5", "0", "0", ",", "0", "0", "0">>
T_2600000 == <<"2", ",", "6", "0", "0", ",", "0", "0", "0">>
T_1234567 == <<"1", ",", "2", "3", "4", ",", "5", "6", "7">>

\* field texts of the first and second column: the pipeline's sources
SampleA == {T_2500000, <<"x">>}
SampleB == {<<"2", "0", "2", "3">>, <<>>}
\* field texts of the first column of the employment source
SampleE == {T_1234567, <<"x">>}
\* field texts of the first and second column: the function harness's sources
TokensA == {<<>>, T_2500000, T_2600000, <<"1", "2">>, <<"x">>,
            <<"N", "A", "N">>, <<"x", "\"">>}
TokensB == {<<>>, T_1234567, <<"y">>}

\* tables of at most n rows, a row being <<first field, second field>>
Tables(A, B, n) == UNION {[1..m -> A \X B] : m \in 0..n}

\* A source file as exported: a field holding a comma or a quote is quoted, a
\* quote in it doubled.
SourceField(s) ==
    IF \E i \in 1..Len(s) : s[i] \in {",", "\""}
    THEN <<"\"">> \o Flatten([i \in 1..Len(s) |->
                        IF s[i] = "\"" THEN <<"\"", "\"">> ELSE <<s[i]>>]) \o <<"\"">>
    ELSE s

SourceLine(fields) ==
    Flatten([i \in 1..Len(fields) |->
        IF i = 1 THEN SourceField(fields[i]) ELSE <<",">> \o SourceField(fields[i])])
    \o <<"\n">>

SourceCsv(rows) ==
    SourceLine(ColumnNames) \o Flatten([r \in 1..Len(rows) |-> SourceLine(rows[r])])

Fixture(kind, rows) == [kind |-> kind, rows |-> rows]

OddKinds == {"missing", "empty", "utf8", "long_row", "short_row"}

FileOf(fx) ==
    CASE fx.kind = "csv" -> File(Encode(SourceCsv(fx.rows), "cp949"))
      [] fx.kind = "missing" -> Absent
      [] fx.kind = "empty" -> File(<<>>)
      \* exported as UTF-8 without a BOM: the Hangul header is illegal in cp949
      [] fx.kind = "utf8" ->
            File(Flatten([i \in 1..Len(SourceCsv(<<>>)) |-> Utf8Bytes(SourceCsv(<<>>)[i])]))
      \* the second data line has three fields
      [] fx.kind = "long_row" ->
            File(Encode(SourceCsv(<< <<<<"1">>, <<"2">>>> >>)
                        \o <<"1", ",", "2", ",", "3", "\n">>, "cp949"))
      \* the second data line has one field
      [] fx.kind = "short_row" ->
            File(Encode(SourceCsv(<< <<<<"1">>, <<"2">>>> >>) \o <<"3", "\n">>, "cp949"))

FileNames == {"kosis_population.csv", "kosis_employment.csv",
              "kosis_regional_population.csv", "processed_population.csv",
              "processed_employment.csv", "processed_regional_population.csv"}

DataDir(p, e, r) ==
    [f \in FileNames |->
        CASE f = "kosis_population.csv" -> FileOf(p)
          [] f = "kosis_employment.csv" -> FileOf(e)
          [] f = "kosis_regional_population.csv" -> FileOf(r)
          [] OTHER -> Absent]

Odd(kinds) == {Fixture(k, <<>>) : k \in kinds}
Csv(tables) == {Fixture("csv", t) : t \in tables}

----------------------------------------------------------------------------
(* main(), one action per statement                                        *)

\* the writes moved before the summary
MainSteps_save_before_summary ==
    <<"load_population", "load_employment", "load_regional",
      "clean_population", "clean_employment",
      "save_population", "save_employment", "summary",
      "preview_population", "preview_employment">>

MainSteps ==
    <<"load_population", "load_employment", "load_regional",
      "clean_population", "clean_employment", "summary",
      "save_population", "save_employment",
      "preview_population", "preview_employment">>

After(step) ==
    LET i == CHOOSE j \in 1..Len(MainSteps) : MainSteps[j] = step
    IN  IF i = Len(MainSteps) THEN "done" ELSE MainSteps[i + 1]

Banner(text) == <<Msg("main", "", text)>>

Init ==
    /\ \E p \in Csv(Tables(SampleA, SampleB, MaxRows)) \cup Odd(OddKinds),
          e \in Csv(Tables(SampleE, {<<"7">>}, MaxRows)) \cup Odd({"missing", "utf8"}),
          r \in Csv({<< <<<<"x">>, <<"7">>>> >>}) \cup Odd({"missing", "long_row"}) :
            /\ fixture = [population |-> p, employment |-> e, regional |-> r]
            /\ fs = DataDir(p, e, r)
    /\ pc = MainSteps[1]
    /\ population_df = Unset /\ employment_df = Unset /\ regional_df = Unset
    /\ population_clean = Unset /\ employment_clean = Unset
    /\ summary = Unset /\ reloaded = Unset
    /\ console = <<>> /\ raised = "none" /\ trace = <<>>
    /\ loaded = [population |-> Unset, employment |-> Unset]

Step(name) ==
    /\ pc = name
    /\ pc' = After(name)
    /\ trace' = Append(trace, name)
    /\ UNCHANGED <<fixture, reloaded>>

LoadPopulation ==
    /\ Step("load_population")
    /\ LET r == load_kosis_csv(fs, "kosis_population.csv", "cp949") IN
        /\ population_df' = r.ret
        /\ loaded' = [loaded EXCEPT !.population = r.ret]
        /\ console' = console \o Banner("start") \o Banner("stage 1") \o r.out
    /\ UNCHANGED <<fs, employment_df, regional_df, population_clean,
                   employment_clean, summary, raised>>

LoadEmployment ==
    /\ Step("load_employment")
    /\ LET r == load_kosis_csv(fs, "kosis_employment.csv", "cp949") IN
        /\ employment_df' = r.ret
        /\ loaded' = [loaded EXCEPT !.employment = r.ret]
        /\ console' = console \o r.out
    /\ UNCHANGED <<fs, population_df, regional_df, population_clean,
                   employment_clean, summary, raised>>

LoadRegional ==
    /\ Step("load_regional")
    /\ LET r == load_kosis_csv(fs, "kosis_regional_population.csv", "cp949") IN
        /\ regional_df' = r.ret
        /\ console' = console \o r.out
    /\ UNCHANGED <<fs, population_df, employment_df, population_clean,
                   employment_clean, summary, raised, loaded>>

\* the cleaner assigns into the frame it was given and returns that frame:
\* population_df and population_clean are one object afterwards
CleanPopulation ==
    /\ Step("clean_population")
    /\ LET r == clean_population_data(population_df) IN
        /\ population_clean' = r.ret
        /\ population_df' = r.ret
        /\ console' = console \o Banner("stage 2") \o r.out
    /\ UNCHANGED <<fs, employment_df, regional_df, employment_clean, summary, raised, loaded>>

CleanEmployment ==
    /\ Step("clean_employment")
    /\ LET r == clean_employment_data(employment_df) IN
        /\ employment_clean' = r.ret
        /\ console' = console \o r.out
    /\ UNCHANGED <<fs, population_df, employment_df, regional_df, population_clean,
                   summary, raised, loaded>>

Summary ==
    /\ Step("summary")
    /\ LET r == create_summary_statistics(population_clean, employment_clean) IN
        /\ summary' = r.ret
        /\ console' = console \o Banner("stage 3") \o r.out
    /\ UNCHANGED <<fs, population_df, employment_df, regional_df, population_clean,
                   employment_clean, raised, loaded>>

\* a statement that calls the writer: an exception leaves main
Save(name, df, filename, banner) ==
    /\ pc = name
    /\ trace' = Append(trace, name)
    /\ \E io_ok \in BOOLEAN :
        LET r == save_processed_data(fs, df, filename, io_ok) IN
        /\ fs' = r.dir
        /\ console' = console \o banner \o r.out
        /\ raised' = r.exc
        /\ pc' = IF r.exc = "none" THEN After(name) ELSE "raised"
    /\ UNCHANGED <<population_df, employment_df, regional_df, population_clean,
                   employment_clean, summary, reloaded, fixture, loaded>>

SavePopulation ==
    Save("save_population", population_clean, "population.csv", Banner("stage 4"))

SaveEmployment ==
    Save("save_employment", employment_clean, "employment.csv", <<>>)

Preview(df, name) ==
    IF df = None THEN <<>>
    ELSE <<[fn |-> "main", arg |-> name, text |-> "preview",
            shape |-> <<NRows(df), Len(df.columns)>>]>>

PreviewPopulation ==
    /\ Step("preview_population")
    /\ console' = console \o Banner("complete") \o Preview(population_clean, "population")
    /\ UNCHANGED <<fs, population_df, employment_df, regional_df, population_clean,
                   employment_clean, summary, raised, loaded>>

PreviewEmployment ==
    /\ Step("preview_employment")
    /\ console' = console \o Preview(employment_clean, "employment")
    /\ UNCHANGED <<fs, population_df, employment_df, regional_df, population_clean,
                   employment_clean, summary, raised, loaded>>

Next ==
    \/ LoadPopulation
    \/ LoadEmployment
    \/ LoadRegional
    \/ CleanPopulation
    \/ CleanEmployment
    \/ Summary
    \/ SavePopulation
    \/ SaveEmployment
    \/ PreviewPopulation
    \/ PreviewEmployment

Spec == Init /\ [][Next]_vars

----------------------------------------------------------------------------
(* The functions called one after the other on one source file:            *)
(* load, clean, save, and the written file loaded again as utf-8-sig       *)

InitFn ==
    /\ \E p \in Csv(Tables(TokensA, TokensB, MaxRows)) \cup Odd(OddKinds) :
            /\ fixture = [population |-> p, employment |-> Fixture("missing", <<>>),
                          regional |-> Fixture("missing", <<>>)]
            /\ fs = DataDir(p, Fixture("missing", <<>>), Fixture("missing", <<>>))
    /\ pc = "h_load"
    /\ population_df = Unset /\ employment_df = Unset /\ regional_df = Unset
    /\ population_clean = Unset /\ employment_clean = Unset
    /\ summary = Unset /\ reloaded = Unset
    /\ console = <<>> /\ raised = "none" /\ trace = <<>>
    /\ loaded = [population |-> Unset, employment |-> Unset]

HLoad ==
    /\ pc = "h_load"
    /\ pc' = "h_clean"
    /\ LET r == load_kosis_csv(fs, "kosis_population.csv", "cp949") IN
        /\ population_df' = r.ret
        /\ loaded' = [loaded EXCEPT !.population = r.ret]
        /\ console' = console \o r.out
    /\ trace' = Append(trace, "h_load")
    /\ UNCHANGED <<fs, employment_df, regional_df, population_clean, employment_clean,
                   summary, reloaded, raised, fixture>>

HClean ==
    /\ pc = "h_clean"
    /\ pc' = "h_save"
    /\ LET r == clean_population_data(population_df) IN
        /\ population_clean' = r.ret
        /\ population_df' = r.ret
        /\ console' = console \o r.out
    /\ trace' = Append(trace, "h_clean")
    /\ UNCHANGED <<fs, employment_df, regional_df, employment_clean, summary,
                   reloaded, raised, fixture, loaded>>

HSave ==
    /\ pc = "h_save"
    /\ \E io_ok \in BOOLEAN :
        LET r == save_processed_data(fs, population_clean, "population.csv", io_ok) IN
        /\ fs' = r.dir
        /\ console' = console \o r.out
        /\ raised' = r.exc
        /\ pc' = IF r.exc = "none" THEN "h_reload" ELSE "raised"
    /\ trace' = Append(trace, "h_save")
    /\ UNCHANGED <<population_df, employment_df, regional_df, population_clean,
                   employment_clean, summary, reloaded, fixture, loaded>>

HReload ==
    /\ pc = "h_reload"
    /\ pc' = "h_done"
    /\ LET r == load_kosis_csv(fs, "processed_population.csv", "utf-8-sig") IN
        /\ reloaded' = r.ret
        /\ console' = console \o r.out
    /\ trace' = Append(trace, "h_reload")
    /\ UNCHANGED <<fs, population_df, employment_df, regional_df, population_clean,
                   employment_clean, summary, raised, fixture, loaded>>

NextFn == HLoad \/ HClean \/ HSave \/ HReload

SpecFn == InitFn /\ [][NextFn]_vars

----------------------------------------------------------------------------
(* Properties                                                              *)

IsPrefix(s, t) == Len(s) <= Len(t) /\ s = SubSeq(t, 1, Len(s))

Written(filename) == fs[filename] # Absent
ReadBack(filename) == ReadCsv(fs[filename].bytes, "utf-8-sig")

Finished == pc \in {"done", "raised"}
AfterHClean == pc \in {"h_save", "h_reload", "h_done", "raised"}

StripCommas(s) == SelectSeq(s, LAMBDA ch : ch # ",")
FailsToParse(cell) == cell.t = "str" /\ ~PyFloat(StripCommas(cell.s)).ok
\* digits and commas, at least one digit
NumericText(s) ==
    /\ \E i \in 1..Len(s) : IsDigit(s[i])
    /\ \A i \in 1..Len(s) : IsDigit(s[i]) \/ s[i] = ","

\* C1: no error is ever raised to the caller: main() finishes normally whatever
\* the outcome of the loads, the conversions and the two writes.
C1_NoErrorRaised == raised = "none" /\ pc # "raised"

\* C2: a text column with a cell that fails to parse after comma removal is left
\* exactly as it was loaded, and every column ends as cleaning that column alone
\* would leave it.
C2_AllOrNothing ==
    (AfterHClean /\ loaded.population # None) =>
        LET before == loaded.population IN
        \A c \in 1..Len(before.columns) :
            /\ (/\ before.dtypes[c] = "object"
                /\ \E r \in 1..Len(before.data[c]) : FailsToParse(before.data[c][r]))
               => /\ population_clean.data[c] = before.data[c]
                  /\ population_clean.dtypes[c] = "object"
            /\ population_clean.data[c] = CleanColumn(before, c).data[c]

C2_Witness ==
    /\ AfterHClean
    /\ population_clean # None
    /\ population_clean.data[1] = <<Str(T_2500000), Str(<<"x">>)>>
    /\ population_clean.data[2] = <<Num(1234567), NaN>>
    /\ loaded.population.dtypes[2] = "object"

\* C3: a text column whose cells are all numeric strings, with or without comma
\* separators, becomes a float column holding, row by row, the number read from
\* the digits: "1,234,567" -> 1234567.0, "2,500,000" -> 2500000.0,
\* "2,600,000" -> 2600000.0.
C3_NumericStringsConverted ==
    (AfterHClean /\ loaded.population # None) =>
        LET before == loaded.population IN
        \A c \in 1..Len(before.columns) :
            (/\ before.dtypes[c] = "object"
             /\ \A r \in 1..Len(before.data[c]) :
                    before.data[c][r].t = "str" /\ NumericText(before.data[c][r].s))
            => /\ population_clean.dtypes[c] = "float64"
               /\ Len(population_clean.data[c]) = Len(before.data[c])
               /\ \A r \in 1..Len(before.data[c]) :
                    /\ population_clean.data[c][r] =
                         Num(DecimalValue(SelectSeq(before.data[c][r].s, IsDigit)))
                    /\ before.data[c][r].s = T_1234567
                         => population_clean.data[c][r] = Num(1234567)
                    /\ before.data[c][r].s = T_2500000
                         => population_clean.data[c][r] = Num(2500000)
                    /\ before.data[c][r].s = T_2600000
                         => population_clean.data[c][r] = Num(2600000)

C3_Witness ==
    /\ AfterHClean
    /\ fixture.population.kind = "csv"
    /\ Len(fixture.population.rows) = 2
    /\ fixture.population.rows[1][1] = T_2500000
    /\ fixture.population.rows[2][1] = T_2600000
    /\ population_clean.data[1] = <<Num(2500000), Num(2600000)>>

\* C4: a well-formed CSV with N data rows loads as a frame of exactly N rows; a
\* missing file and any failure to read give None, with a message and without an
\* exception; a partly read frame is never returned.
C4_LoadRowsOrNone ==
    (pc = "h_clean") =>
        /\ raised = "none"
        /\ Len(console) >= 1
        /\ fixture.population.kind = "csv" =>
            /\ population_df # None
            /\ NRows(population_df) = Len(fixture.population.rows)
            /\ \A c \in 1..Len(population_df.data) :
                    Len(population_df.data[c]) = Len(fixture.population.rows)
            /\ console[1].text = "loaded"
            /\ console[1].rows = Len(fixture.population.rows)
        /\ fixture.population.kind \in {"missing", "empty", "utf8", "long_row"} =>
            /\ population_df = None
            /\ console[1].text # "loaded"
        /\ fixture.population.kind = "missing" => console[1].text = "not found"

C4_Witness ==
    /\ pc = "h_clean"
    /\ fixture.population.kind = "csv"
    /\ Len(fixture.population.rows) = 2
    /\ population_df # None
    /\ NRows(population_df) = 2

\* C5: in every run processed_population.csv is written iff the population load
\* succeeded and processed_employment.csv iff the employment load succeeded,
\* whatever happens to the other datasets.
C5_WrittenIffLoaded ==
    Finished =>
        /\ Written("processed_population.csv") <=> (population_df # None)
        /\ Written("processed_employment.csv") <=> (employment_df # None)

\* C6: the steps of a run are taken in one fixed order: the three loads, the two
\* cleanings, the summary, the two writes, the two previews; the regional frame
\* is only loaded, and no file but the two processed files is written.
C6_FixedOrder ==
    /\ IsPrefix(trace, <<"load_population", "load_employment", "load_regional",
                         "clean_population", "clean_employment", "summary",
                         "save_population", "save_employment",
                         "preview_population", "preview_employment">>)
    /\ population_clean # Unset =>
            population_df # Unset /\ employment_df # Unset /\ regional_df # Unset
    /\ employment_clean # Unset => regional_df # Unset
    /\ summary # Unset => population_clean # Unset /\ employment_clean # Unset
    /\ (Written("processed_population.csv") \/ Written("processed_employment.csv"))
            => summary # Unset
    /\ \A i \in 1..Len(console) :
            /\ console[i].text = "preview" =>
                    /\ population_clean # None => Written("processed_population.csv")
                    /\ employment_clean # None => Written("processed_employment.csv")
            /\ console[i].arg \in {"kosis_regional_population.csv", "regional_population.csv",
                                   "regional"}
                    => console[i].fn = "load_kosis_csv"
    /\ ~Written("processed_regional_population.csv")
    /\ \A f \in {"kosis_population.csv", "kosis_employment.csv",
                 "kosis_regional_population.csv"} : fs[f] = DataDir(fixture.population,
                                                     fixture.employment, fixture.regional)[f]

C6_Witness ==
    /\ pc = "done"
    /\ Len(trace) = 10
    /\ regional_df # None
    /\ Written("processed_population.csv")
    /\ Written("processed_employment.csv")

\* C7: a cleaned frame written by save_processed_data and loaded again as
\* utf-8-sig has the same number of rows, the same column names in the same
\* order and the same cells (text as text, numbers as the same numbers, missing
\* as missing).
C7_RoundTrip ==
    (pc = "h_done" /\ population_clean # None) =>
        /\ reloaded # None
        /\ NRows(reloaded) = NRows(population_clean)
        /\ reloaded.columns = population_clean.columns
        /\ reloaded.data = population_clean.data

C7_Witness ==
    /\ pc = "h_done"
    /\ reloaded # None
    /\ reloaded.data[1] = <<Str(T_2600000), Str(<<"x", "\"">>)>>
    /\ reloaded.data[2] = <<NaN, Num(1234567)>>

\* C8: cleaning keeps the shape, and a cell is missing after cleaning iff it was
\* missing as loaded, so the counts reported are the counts of the loaded data.
C8_MissingPreserved ==
    (AfterHClean /\ loaded.population # None) =>
        LET before == loaded.population IN
        /\ population_clean.columns = before.columns
        /\ \A c \in 1..Len(before.columns) :
            /\ Len(population_clean.data[c]) = NRows(before)
            /\ \A r \in 1..NRows(before) :
                (population_clean.data[c][r].t = "nan") <=> (before.data[c][r].t = "nan")
        /\ IsNullSum(population_clean) = IsNullSum(before)

\* C9: create_summary_statistics returns an empty mapping whatever it is given,
\* and the two frames are after the call what cleaning left.
C9_SummaryEmpty ==
    summary # Unset =>
        /\ summary = [k |-> "dict", items |-> {}]
        /\ population_clean = clean_population_data(loaded.population).ret
        /\ employment_clean = loaded.employment

C9_Witness ==
    /\ pc = "save_population"
    /\ summary = [k |-> "dict", items |-> {}]
    /\ population_clean # None
    /\ NRows(population_clean) = 2
    /\ employment_clean # None

\* C10: clean_employment_data returns the frame it was given, cell for cell (None
\* for None), so processed_employment.csv holds the rows and cells loaded from
\* kosis_employment.csv.
C10_EmploymentUntouched ==
    /\ employment_clean # Unset =>
        /\ employment_clean = loaded.employment
        /\ employment_clean = employment_df
    /\ Written("processed_employment.csv") =>
        /\ employment_df # None
        /\ ReadBack("processed_employment.csv").exc = "none"
        /\ ReadBack("processed_employment.csv").df.columns = employment_df.columns
        /\ ReadBack("processed_employment.csv").df.data = employment_df.data

C10_Witness ==
    /\ Written("processed_employment.csv")
    /\ employment_clean # None
    /\ employment_clean.dtypes[1] = "object"
    /\ employment_clean.data[1] = <<Str(T_1234567), Str(T_1234567)>>

====
